---- MODULE Spec2Model ----
(***************************************************************************)
(* Model of the validation hooks and the orchestrator of                   *)
(* web-fullstack-blueprint:                                                *)
(*   src/ai/hooks/prd_validator.py          PRDValidator                   *)
(*   src/ai/hooks/user_prompt_submit.py     UserPromptSubmitValidator      *)
(*   src/ai/hooks/web_performance_guard.py  PerformanceGuard               *)
(*   src/ai/orchestrator.py                 Orchestrator                   *)
(*                                                                         *)
(* Every hook is a function of one JSON document.  A JSON object is        *)
(* modelled as its key sequence in document order (Python dicts keep       *)
(* insertion order) and `k in d` as a search of that sequence.  A          *)
(* formatted message (an f-string) is modelled as the tuple of its pieces. *)
(***************************************************************************)
EXTENDS Integers, Sequences, FiniteSets, TLC

VARIABLES
    timestamp,        \* self.timestamp, set by __init__ of the instance in use
    prd_pc,           \* PRDValidator.process: "idle" | "start" | "done"
    prd_content,      \* the PRD document handed to PRDValidator.process
    prd_validation,   \* the local `validation` of PRDValidator.process
    prd_result,       \* the value PRDValidator.process returns
    perf_pc,          \* PerformanceGuard.process: "idle" | "start" | "done"
    metrics,          \* the metrics document handed to PerformanceGuard.process
    perf_validation,  \* the local `validation` of PerformanceGuard.process
    perf_result,      \* the value PerformanceGuard.process returns
    hook_pc,          \* UserPromptSubmitValidator.process: "idle" | "start" | "done"
    hook_request,     \* the request object handed to UserPromptSubmitValidator.process
    hook_result,      \* the value UserPromptSubmitValidator.process returns
    orch_pc,          \* Orchestrator.orchestrate: "idle", or the phase to run next
    request,          \* the request handed to Orchestrator.orchestrate
    execution_plan,   \* the local `execution_plan` of orchestrate
    request_validation,   \* the local `request_validation` of orchestrate
    orch_prd_validation,  \* the local `prd_validation` of orchestrate
    plan,             \* the local `plan` of orchestrate
    assignments,      \* the local `assignments` of orchestrate
    orch_result       \* the value orchestrate returns

prdVars == <<prd_pc, prd_content, prd_validation, prd_result>>

perfVars == <<perf_pc, metrics, perf_validation, perf_result>>

hookVars == <<hook_pc, hook_request, hook_result>>

orchVars == <<orch_pc, request, execution_plan, request_validation, orch_prd_validation,
              plan, assignments, orch_result>>

vars == <<timestamp, prdVars, perfVars, hookVars, orchVars>>

\* The value of a local or a result that has not been assigned yet.
None == <<>>

\* datetime.now().isoformat() at construction: any clock value.
Timestamps == {"2026-01-01T00:00:00", "2026-01-02T00:00:00"}

(***************************************************************************)
(* Generic helpers on sequences.                                           *)
(***************************************************************************)
Range(s) == {s[i] : i \in DOMAIN s}

\* `k in d` for a dict whose keys, in order, are `keys`.
HasKey(keys, k) == \E i \in DOMAIN keys : keys[i] = k

Reverse(s) == [i \in 1..Len(s) |-> s[Len(s) + 1 - i]]

\* The subsequence of `s` of the elements that are in the set `keep`.
Restrict(s, keep) == SelectSeq(s, LAMBDA x : x \in keep)

\* All sequences over S of length at most n.
RECURSIVE BoundedSeqs(_, _)
BoundedSeqs(S, n) ==
    IF n = 0 THEN {<<>>}
    ELSE LET shorter == BoundedSeqs(S, n - 1)
         IN  shorter \cup {Append(s, x) : s \in {t \in shorter : Len(t) = n - 1}, x \in S}

(***************************************************************************)
(* PRDValidator (src/ai/hooks/prd_validator.py)                            *)
(***************************************************************************)
required_sections ==
    << "Executive Summary", "Problem Statement", "Target Users/Personas",
       "Core Features", "Success Metrics", "Constraints", "Timeline", "Non-Goals" >>

required_feature_fields == << "name", "priority", "description", "acceptance_criteria" >>

required_metric_categories ==
    << "development", "quality", "performance", "security", "accessibility" >>

required_constraint_categories == << "technical", "performance", "security", "compliance" >>

\* The entries of `required` that a `for x in required: if x not in keys:`
\* loop finds missing, in the order of `required`, from position i on; each
\* caller formats them into its messages.
RECURSIVE MissingFrom(_, _, _)
MissingFrom(required, keys, i) ==
    IF i > Len(required) THEN <<>>
    ELSE (IF HasKey(keys, required[i]) THEN <<>> ELSE << required[i] >>)
         \o MissingFrom(required, keys, i + 1)

MissingSectionMsg(section) == << "Missing section: ", section >>
MissingFieldOfFeatureMsg(idx, field) ==
    << "Feature ", ToString(idx), ": missing field '", field, "'" >>
MissingMetricMsg(category) == << "Missing metric category: ", category >>
MissingConstraintMsg(category) == << "Missing constraint category: ", category >>
NoFeaturesMsg == << "No features defined" >>

\* A variant of FeatureEntryIssues that leaves the entry at its first missing field.
FeatureEntryIssuesFirstOnly(idx, feature) ==
    LET all == [j \in 1..Len(MissingFrom(required_feature_fields, feature, 1)) |->
                   MissingFieldOfFeatureMsg(idx, MissingFrom(required_feature_fields, feature, 1)[j])]
    IN  IF Len(all) = 0 THEN <<>> ELSE << all[1] >>

\* The inner loop of _validate_features for the entry at zero-based index idx;
\* `feature` is the entry's key sequence.
FeatureEntryIssues(idx, feature) ==
    [j \in 1..Len(MissingFrom(required_feature_fields, feature, 1)) |->
        MissingFieldOfFeatureMsg(idx, MissingFrom(required_feature_fields, feature, 1)[j])]

\* The outer loop of _validate_features, from the 1-based position i on
\* (enumerate counts from 0).
RECURSIVE FeatureLoop(_, _)
FeatureLoop(items, i) ==
    IF i > Len(items) THEN <<>>
    ELSE FeatureEntryIssues(i - 1, items[i]) \o FeatureLoop(items, i + 1)

\* PRDValidator._validate_features.  `features` is [null, items]: JSON null, or
\* the list `items` of entries.
_validate_features(features) ==
    IF features.null \/ Len(features.items) = 0
    THEN << NoFeaturesMsg >>
    ELSE FeatureLoop(features.items, 1)

\* PRDValidator._validate_metrics; `success_metrics` is the key sequence of the
\* mapping `metrics`.
_validate_metrics(success_metrics) ==
    [j \in 1..Len(MissingFrom(required_metric_categories, success_metrics, 1)) |->
        MissingMetricMsg(MissingFrom(required_metric_categories, success_metrics, 1)[j])]

\* PRDValidator._validate_constraints.
_validate_constraints(constraints) ==
    [j \in 1..Len(MissingFrom(required_constraint_categories, constraints, 1)) |->
        MissingConstraintMsg(MissingFrom(required_constraint_categories, constraints, 1)[j])]

\* A variant of SectionIssues that returns at the first missing section, as the
\* request validators do.
SectionIssuesFirstOnly(doc) ==
    LET all == [j \in 1..Len(MissingFrom(required_sections, doc.keys, 1)) |->
        MissingSectionMsg(MissingFrom(required_sections, doc.keys, 1)[j])]
    IN  IF Len(all) = 0 THEN <<>> ELSE << all[1] >>

\* The section loop of validate_prd.
SectionIssues(doc) == [j \in 1..Len(MissingFrom(required_sections, doc.keys, 1)) |->
        MissingSectionMsg(MissingFrom(required_sections, doc.keys, 1)[j])]

\* A variant of FeaturesBlock without the `in` guard: prd_content.get("features").
FeaturesBlockNoGuard(doc) == _validate_features(doc.features)

\* The `if "features" in prd_content:` block of validate_prd.
FeaturesBlock(doc) ==
    IF HasKey(doc.keys, "features") THEN _validate_features(doc.features) ELSE <<>>

MetricsBlock(doc) ==
    IF HasKey(doc.keys, "success_metrics") THEN _validate_metrics(doc.success_metrics) ELSE <<>>

ConstraintsBlock(doc) ==
    IF HasKey(doc.keys, "constraints") THEN _validate_constraints(doc.constraints) ELSE <<>>

\* PRDValidator.validate_prd.
validate_prd(doc, ts) ==
    LET issues == SectionIssues(doc) \o FeaturesBlock(doc)
                  \o MetricsBlock(doc) \o ConstraintsBlock(doc)
    IN  [valid |-> Len(issues) = 0, issues |-> issues, timestamp |-> ts]

\* PRDValidator.get_prd_summary: a constant table.
get_prd_summary ==
    [product |-> "AI Web Full-Stack Blueprint", version |-> "1.0.0",
     status |-> "active", features_count |-> 4,
     success_metrics |-> << "13X development velocity", "> 80% code coverage",
                            "Lighthouse > 90", "Zero security vulnerabilities",
                            "WCAG 2.1 AA compliance" >>]

\* A variant of PRDProcessResult that tests the truth of the `validation` dict
\* (always true) instead of validation["valid"].
PRDProcessResultTruthy(validation, ts) ==
    [valid |-> TRUE, prd_summary |-> get_prd_summary, timestamp |-> ts,
     ready_for_implementation |-> TRUE]

\* The return statement of PRDValidator.process, given `validation`.
PRDProcessResult(validation, ts) ==
    IF validation.valid
    THEN [valid |-> TRUE, prd_summary |-> get_prd_summary, timestamp |-> ts,
          ready_for_implementation |-> TRUE]
    ELSE [valid |-> FALSE, issues |-> validation.issues, timestamp |-> ts,
          action_required |-> "Fix PRD issues before proceeding"]

\* PRDValidator.process(prd_content).
PRDProcess ==
    /\ prd_pc = "start"
    /\ prd_validation' = validate_prd(prd_content, timestamp)
    /\ prd_result' = PRDProcessResult(prd_validation', timestamp)
    /\ prd_pc' = "done"
    /\ UNCHANGED <<timestamp, prd_content, perfVars, hookVars, orchVars>>

(***************************************************************************)
(* PRD documents.  A document is [keys, features, success_metrics,         *)
(* constraints]: its top-level keys in document order and the values the   *)
(* validator reads (the values of the other keys are never read).          *)
(***************************************************************************)
Null == [null |-> TRUE, items |-> <<>>]
List(items) == [null |-> FALSE, items |-> items]

AllPRDKeys == required_sections \o << "features", "success_metrics", "constraints" >>

\* The document orders drawn: the canonical order and its reverse.
KeyOrders(canonical) == {canonical, Reverse(canonical)}

MaxPrdFeatures == 1
MaxFeatures == 2

\* A feature entry is the key sequence of a mapping.
FeatureEntries == {Restrict(required_feature_fields, F) : F \in SUBSET Range(required_feature_fields)}
PrdFeatureEntries == {required_feature_fields, << "name", "description" >>}

AllBut(s, x) == SelectSeq(s, LAMBDA y : y # x)

PrdMetricValues == {required_metric_categories, AllBut(required_metric_categories, "quality")}
PrdConstraintValues ==
    {required_constraint_categories, AllBut(required_constraint_categories, "compliance")}

MkPRD(keys, f, m, c) ==
    [keys |-> keys,
     features |-> IF HasKey(keys, "features") THEN f ELSE Null,
     success_metrics |-> IF HasKey(keys, "success_metrics") THEN m ELSE <<>>,
     constraints |-> IF HasKey(keys, "constraints") THEN c ELSE <<>>]

\* Documents with any set of top-level keys, in either order.
PRDDocs ==
    {MkPRD(Restrict(order, P), f, m, c) :
        order \in KeyOrders(AllPRDKeys), P \in SUBSET Range(AllPRDKeys),
        f \in {Null} \cup {List(s) : s \in BoundedSeqs(PrdFeatureEntries, MaxPrdFeatures)},
        m \in PrdMetricValues, c \in PrdConstraintValues}

\* Documents with every section and a feature list of any shape.
FeatureDocs ==
    {MkPRD(AllPRDKeys, List(s), required_metric_categories, required_constraint_categories) :
        s \in BoundedSeqs(FeatureEntries, MaxFeatures)}

\* The validator is not in use.
PRDIdle ==
    /\ prd_pc = "idle"
    /\ prd_content = None
    /\ prd_validation = None
    /\ prd_result = None

PRDStart(docs) ==
    /\ prd_pc = "start"
    /\ prd_content \in docs
    /\ prd_validation = None
    /\ prd_result = None

(***************************************************************************)
(* Python float arithmetic, as far as PerformanceGuard uses it.            *)
(* A positive float (an IEEE 754 binary64) is [e, m]: its value is         *)
(* 1.f * 2^e, and m is the 52-bit fraction f as four limbs of 13 bits,     *)
(* most significant first.  Every operation rounds to nearest, ties to     *)
(* even.  The limbs keep every intermediate value below 2^31.              *)
(***************************************************************************)
LimbBase == 8192

RECURSIVE Pow2(_)
Pow2(k) == IF k = 0 THEN 1 ELSE 2 * Pow2(k - 1)

\* The largest k with d * 2^k <= n, for n >= d > 0.
RECURSIVE Log2Quotient(_, _)
Log2Quotient(n, d) == IF 2 * d > n THEN 0 ELSE 1 + Log2Quotient(n, 2 * d)

\* The float of exponent e and fraction limbs m, rounded up by one unit in the
\* last place when `up`.
RoundedFloat(e, m, up) ==
    IF ~up THEN [e |-> e, m |-> m]
    ELSE LET s4 == m[4] + 1
             s3 == m[3] + s4 \div LimbBase
             s2 == m[2] + s3 \div LimbBase
             s1 == m[1] + s2 \div LimbBase
         IN  IF s1 \div LimbBase = 1
             THEN [e |-> e + 1, m |-> <<0, 0, 0, 0>>]
             ELSE [e |-> e, m |-> <<s1 % LimbBase, s2 % LimbBase, s3 % LimbBase, s4 % LimbBase>>]

\* Python's n / d for ints n >= d > 0: the correctly rounded quotient, by long
\* division, one limb a step.
PyIntTrueDiv(n, d) ==
    LET e  == Log2Quotient(n, d)
        dd == d * Pow2(e)
        r0 == n - dd
        l1 == (r0 * LimbBase) \div dd
        r1 == (r0 * LimbBase) % dd
        l2 == (r1 * LimbBase) \div dd
        r2 == (r1 * LimbBase) % dd
        l3 == (r2 * LimbBase) \div dd
        r3 == (r2 * LimbBase) % dd
        l4 == (r3 * LimbBase) \div dd
        r4 == (r3 * LimbBase) % dd
        up == 2 * r4 > dd \/ (2 * r4 = dd /\ l4 % 2 = 1)
    IN  RoundedFloat(e, <<l1, l2, l3, l4>>, up)

\* Python's x * k for a float x and an int 1 <= k < LimbBase (which a float holds
\* exactly): the exact product, rounded to 53 significant bits.
PyFloatMulInt(x, k) ==
    LET t4  == x.m[4] * k
        t3  == x.m[3] * k + t4 \div LimbBase
        t2  == x.m[2] * k + t3 \div LimbBase
        t1  == x.m[1] * k + t2 \div LimbBase
        top == k + t1 \div LimbBase
        p1  == t1 % LimbBase
        p2  == t2 % LimbBase
        p3  == t3 % LimbBase
        p4  == t4 % LimbBase
        \* the product is top * 2^52 + (p1 p2 p3 p4), of 53 + extra bits
        extra == Log2Quotient(top, 1)
        low   == Pow2(extra)
        high  == LimbBase \div low
        l1 == (top % low) * high + p1 \div low
        l2 == (p1 % low) * high + p2 \div low
        l3 == (p2 % low) * high + p3 \div low
        l4 == (p3 % low) * high + p4 \div low
        dropped == p4 % low
        up == 2 * dropped > low \/ (2 * dropped = low /\ l4 % 2 = 1)
    IN  RoundedFloat(x.e + extra, <<l1, l2, l3, l4>>, up)

\* The float that holds the int 1 <= k < LimbBase exactly.
PyFloatOfInt(k) ==
    LET e == Log2Quotient(k, 1)
    IN  [e |-> e, m |-> <<(k - Pow2(e)) * (LimbBase \div Pow2(e)), 0, 0, 0>>]

\* Python's x > k for a float x and an int 1 <= k < LimbBase: an exact comparison.
PyFloatGtInt(x, k) ==
    LET y == PyFloatOfInt(k)
    IN  \/ x.e > y.e
        \/ /\ x.e = y.e
           /\ \E i \in 1..4 : x.m[i] > y.m[i] /\ \A j \in 1..(i - 1) : x.m[j] = y.m[j]

(***************************************************************************)
(* PerformanceGuard (src/ai/hooks/web_performance_guard.py)                *)
(*                                                                         *)
(* A metrics group is the sequence of its <<key, value>> items in document *)
(* order.  A violation is [type, metric, value, budget, unit]; its         *)
(* `message` and `percentage` are formattings of these fields and of the   *)
(* same quotient and are not carried.  Core-Web-Vitals values and budgets  *)
(* are counted in thousandths, so that cls 0.1 is 100 and fcp 1500 ms is   *)
(* 1500000: JSON decimals with three digits after the point compare as     *)
(* floats the way their thousandths compare as integers.                   *)
(***************************************************************************)
min_score == 90
lighthouse_categories == << "performance", "accessibility", "best-practices", "seo" >>

cwv_budgets ==
    << <<"fcp", 1500000>>, <<"lcp", 2500000>>, <<"tti", 3500000>>, <<"cls", 100>> >>

bundle_budgets ==
    << <<"javascript", 300>>, <<"css", 75>>, <<"images", 1000>>, <<"fonts", 100>> >>

network_budgets ==
    << <<"ttfb", 200>>, <<"3g_load_time", 5000>>, <<"4g_load_time", 3000>> >>

\* metric_names of _check_core_web_vitals, in the order of the dict literal.
metric_names ==
    << <<"fcp", "First Contentful Paint">>, <<"lcp", "Largest Contentful Paint">>,
       <<"tti", "Time to Interactive">>, <<"cls", "Cumulative Layout Shift">> >>

\* `k in d` and d[k] for a dict given as its item sequence.
HasItem(items, k) == \E i \in DOMAIN items : items[i][1] = k
Lookup(items, k) == items[CHOOSE i \in DOMAIN items : items[i][1] = k][2]

\* The key absent from a violation record.
NoUnit == "<no unit key>"

\* str.title() of the asset types of the budget table.
Title(asset_type) ==
    CASE asset_type = "javascript" -> "Javascript"
      [] asset_type = "css" -> "Css"
      [] asset_type = "images" -> "Images"
      [] asset_type = "fonts" -> "Fonts"

\* The loop of _check_lighthouse from item i of `scores` on.
RECURSIVE _check_lighthouse_from(_, _)
_check_lighthouse_from(scores, i) ==
    IF i > Len(scores) THEN <<>>
    ELSE LET category == scores[i][1]
             score    == scores[i][2]
         IN  (IF score < min_score
              THEN << [type |-> "critical", metric |-> << "Lighthouse ", category >>,
                       value |-> score, budget |-> min_score, unit |-> NoUnit] >>
              ELSE <<>>)
             \o _check_lighthouse_from(scores, i + 1)

\* A variant of _check_lighthouse that walks the fixed category table, as
\* _check_core_web_vitals walks metric_names.
CheckLighthouseByTable(scores) ==
    LET low == SelectSeq(lighthouse_categories,
                         LAMBDA k : HasItem(scores, k) /\ Lookup(scores, k) < min_score)
    IN  [i \in DOMAIN low |->
            [type |-> "critical", metric |-> << "Lighthouse ", low[i] >>,
             value |-> Lookup(scores, low[i]), budget |-> min_score, unit |-> NoUnit]]

\* PerformanceGuard._check_lighthouse.
_check_lighthouse(scores) == _check_lighthouse_from(scores, 1)

\* The loop of _check_core_web_vitals from entry i of metric_names on.
RECURSIVE _check_core_web_vitals_from(_, _)
_check_core_web_vitals_from(cwv, i) ==
    IF i > Len(metric_names) THEN <<>>
    ELSE LET metric_key  == metric_names[i][1]
             metric_name == metric_names[i][2]
         IN  (IF HasItem(cwv, metric_key) /\ Lookup(cwv, metric_key) > Lookup(cwv_budgets, metric_key)
              THEN << [type |-> "critical", metric |-> << metric_name >>,
                       value |-> Lookup(cwv, metric_key),
                       budget |-> Lookup(cwv_budgets, metric_key),
                       unit |-> IF metric_key # "cls" THEN "ms" ELSE ""] >>
              ELSE <<>>)
             \o _check_core_web_vitals_from(cwv, i + 1)

\* PerformanceGuard._check_core_web_vitals.
_check_core_web_vitals(cwv) == _check_core_web_vitals_from(cwv, 1)

\* percentage = (size_kb / budget) * 100, for size_kb > budget.
Percentage(size_kb, budget) == PyFloatMulInt(PyIntTrueDiv(size_kb, budget), 100)

\* level = "critical" if percentage > 110 else "warning".
Level(size_kb, budget) ==
    IF PyFloatGtInt(Percentage(size_kb, budget), 110) THEN "critical" ELSE "warning"

\* The loop of _check_bundle_sizes from item i of `sizes` on.
RECURSIVE _check_bundle_sizes_from(_, _)
_check_bundle_sizes_from(sizes, i) ==
    IF i > Len(sizes) THEN <<>>
    ELSE LET asset_type == sizes[i][1]
             size_kb    == sizes[i][2]
         IN  (IF HasItem(bundle_budgets, asset_type) /\ size_kb > Lookup(bundle_budgets, asset_type)
              THEN << [type |-> Level(size_kb, Lookup(bundle_budgets, asset_type)),
                       metric |-> << Title(asset_type), " bundle" >>,
                       value |-> size_kb,
                       budget |-> Lookup(bundle_budgets, asset_type),
                       unit |-> "KB"] >>
              ELSE <<>>)
             \o _check_bundle_sizes_from(sizes, i + 1)

\* PerformanceGuard._check_bundle_sizes.
_check_bundle_sizes(sizes) == _check_bundle_sizes_from(sizes, 1)

\* The loop of _check_network from item i of `network` on.
RECURSIVE _check_network_from(_, _)
_check_network_from(network, i) ==
    IF i > Len(network) THEN <<>>
    ELSE LET metric_key == network[i][1]
             value      == network[i][2]
         IN  (IF HasItem(network_budgets, metric_key) /\ value > Lookup(network_budgets, metric_key)
              THEN << [type |-> "warning", metric |-> << metric_key >>,
                       value |-> value,
                       budget |-> Lookup(network_budgets, metric_key),
                       unit |-> "ms"] >>
              ELSE <<>>)
             \o _check_network_from(network, i + 1)

\* A variant of _check_network that escalates like _check_bundle_sizes: more
\* than 10% over budget is critical.
CheckNetworkEscalating(network) ==
    LET issues == _check_network_from(network, 1)
    IN  [i \in DOMAIN issues |->
            [issues[i] EXCEPT !.type =
                IF 100 * issues[i].value > 110 * issues[i].budget
                THEN "critical" ELSE "warning"]]

\* PerformanceGuard._check_network.
_check_network(network) == _check_network_from(network, 1)

\* A variant of validate_performance that files warning-severity items under
\* `warnings` and fails on critical ones only.
ValidatePerformanceSplit(doc, ts) ==
    LET all ==
            (IF HasKey(doc.groups, "lighthouse")
             THEN _check_lighthouse(doc.lighthouse) ELSE <<>>)
            \o (IF HasKey(doc.groups, "core_web_vitals")
                THEN _check_core_web_vitals(doc.core_web_vitals) ELSE <<>>)
            \o (IF HasKey(doc.groups, "bundle_sizes")
                THEN _check_bundle_sizes(doc.bundle_sizes) ELSE <<>>)
            \o (IF HasKey(doc.groups, "network")
                THEN _check_network(doc.network) ELSE <<>>)
        violations == SelectSeq(all, LAMBDA v : v.type = "critical")
        warnings   == SelectSeq(all, LAMBDA v : v.type = "warning")
    IN  [valid |-> Len(violations) = 0, violations |-> violations,
         warnings |-> warnings, timestamp |-> ts]

\* PerformanceGuard.validate_performance.  `doc` is [groups, lighthouse,
\* core_web_vitals, bundle_sizes, network]: the top-level keys in document
\* order and the item sequence of each group.
validate_performance(doc, ts) ==
    LET violations ==
            (IF HasKey(doc.groups, "lighthouse")
             THEN _check_lighthouse(doc.lighthouse) ELSE <<>>)
            \o (IF HasKey(doc.groups, "core_web_vitals")
                THEN _check_core_web_vitals(doc.core_web_vitals) ELSE <<>>)
            \o (IF HasKey(doc.groups, "bundle_sizes")
                THEN _check_bundle_sizes(doc.bundle_sizes) ELSE <<>>)
            \o (IF HasKey(doc.groups, "network")
                THEN _check_network(doc.network) ELSE <<>>)
        warnings == <<>>
    IN  [valid |-> Len(violations) = 0, violations |-> violations,
         warnings |-> warnings, timestamp |-> ts]

\* PerformanceGuard.get_budget_summary.
get_budget_summary ==
    [lighthouse_minimum |-> min_score, core_web_vitals |-> cwv_budgets,
     bundle_limits |-> bundle_budgets, network_targets |-> network_budgets]

\* The return statement of PerformanceGuard.process, given `validation`.
PerfProcessResult(validation, ts) ==
    IF validation.valid
    THEN [valid |-> TRUE, message |-> "All performance budgets met",
          budget_summary |-> get_budget_summary, timestamp |-> ts,
          approved_for_merge |-> TRUE]
    ELSE [valid |-> FALSE, violations |-> validation.violations,
          warnings |-> validation.warnings, timestamp |-> ts,
          action_required |-> "Fix performance violations before merge",
          budget_summary |-> get_budget_summary]

\* A variant of process whose validation keeps its violations on the guard
\* (self.violations) and extends them on every call.
PerfProcessAccumulating ==
    /\ perf_pc = "start"
    /\ perf_validation' =
           LET validation == validate_performance(metrics, timestamp)
               kept == IF perf_validation = None THEN <<>> ELSE perf_validation.violations
           IN  [validation EXCEPT !.violations = kept \o @,
                                  !.valid = Len(kept \o validation.violations) = 0]
    /\ perf_result' = PerfProcessResult(perf_validation', timestamp)
    /\ perf_pc' = "done"
    /\ UNCHANGED <<timestamp, metrics, prdVars, hookVars, orchVars>>

\* PerformanceGuard.process(metrics).
PerfProcess ==
    /\ perf_pc = "start"
    /\ perf_validation' = validate_performance(metrics, timestamp)
    /\ perf_result' = PerfProcessResult(perf_validation', timestamp)
    /\ perf_pc' = "done"
    /\ UNCHANGED <<timestamp, metrics, prdVars, hookVars, orchVars>>

(***************************************************************************)
(* UserPromptSubmitValidator (src/ai/hooks/user_prompt_submit.py)          *)
(*                                                                         *)
(* A request is [keys, type, prd, injected_context]: its top-level keys in *)
(* document order and the values the code reads or writes.  `prd` is       *)
(* [null, keys]: JSON null, or a mapping of the given keys.                *)
(***************************************************************************)
required_fields == << "type", "action", "description" >>
valid_types == << "feature", "bugfix", "refactor", "documentation" >>

MissingRequiredFieldMsg(field) == << "Missing required field: ", field >>
InvalidTypeMsg == << "Invalid request type. Must be one of: ", valid_types >>

\* The position of the first entry of `required` that is not a key, 0 if none:
\* where a `for field in required: if field not in request: return` loop leaves.
FirstMissing(required, keys) ==
    IF \A i \in DOMAIN required : HasKey(keys, required[i]) THEN 0
    ELSE CHOOSE i \in DOMAIN required :
             /\ ~HasKey(keys, required[i])
             /\ \A j \in 1..(i - 1) : HasKey(keys, required[j])

\* A variant of FirstMissing that lets the loop run on and keeps the last
\* missing entry.
LastMissing(required, keys) ==
    IF \A i \in DOMAIN required : HasKey(keys, required[i]) THEN 0
    ELSE CHOOSE i \in DOMAIN required :
             /\ ~HasKey(keys, required[i])
             /\ \A j \in (i + 1)..Len(required) : HasKey(keys, required[j])

\* A variant of validate_request whose loop does not return at the first
\* missing field.
ValidateRequestLast(req, ts) ==
    LET i == LastMissing(required_fields, req.keys)
    IN  IF i # 0
        THEN [valid |-> FALSE, error |-> MissingRequiredFieldMsg(required_fields[i]),
              timestamp |-> ts]
        ELSE IF ~HasKey(valid_types, req.type)
        THEN [valid |-> FALSE, error |-> InvalidTypeMsg, timestamp |-> ts]
        ELSE [valid |-> TRUE, timestamp |-> ts]

\* UserPromptSubmitValidator.validate_request.
validate_request(req, ts) ==
    LET i == FirstMissing(required_fields, req.keys)
    IN  IF i # 0
        THEN [valid |-> FALSE, error |-> MissingRequiredFieldMsg(required_fields[i]),
              timestamp |-> ts]
        ELSE IF ~HasKey(valid_types, req.type)
        THEN [valid |-> FALSE, error |-> InvalidTypeMsg, timestamp |-> ts]
        ELSE [valid |-> TRUE, timestamp |-> ts]

\* UserPromptSubmitValidator._load_prd_summary.
_load_prd_summary ==
    [product |-> "AI Web Full-Stack Blueprint",
     features |->
        << [name |-> "Marketing Homepage", priority |-> "P0", status |-> "planned"],
           [name |-> "User Authentication", priority |-> "P0", status |-> "planned"],
           [name |-> "Real-Time Dashboard", priority |-> "P1", status |-> "planned"],
           [name |-> "Blog/Content Management", priority |-> "P2", status |-> "planned"] >>]

\* UserPromptSubmitValidator._load_constraints.
_load_constraints ==
    [performance |->
        [lighthouse |-> "> 90", first_contentful_paint |-> "< 1.5s",
         largest_contentful_paint |-> "< 2.5s", time_to_interactive |-> "< 3.5s",
         cumulative_layout_shift |-> "< 0.1"],
     security |->
        [authentication |-> "JWT", password_min_length |-> 12,
         rate_limiting |-> "100 req/15min", https |-> "required"],
     accessibility |-> [wcag |-> "2.1 AA", touch_target_size |-> "44x44px minimum"],
     browsers |-> [chrome |-> ">= 90", firefox |-> ">= 88", safari |-> ">= 14"]]

\* UserPromptSubmitValidator._get_quality_gates.
_get_quality_gates ==
    << "TypeScript compilation", "ESLint passing", "Jest tests (>80% coverage)",
       "Lighthouse performance", "Security scanning", "Accessibility validation",
       "SEO requirements", "Bundle size limits" >>

\* The `context` of inject_context.
InjectedContext ==
    [prd |-> _load_prd_summary, constraints |-> _load_constraints,
     quality_gates |-> _get_quality_gates]

\* The value of a key the request does not have.
Absent == [absent |-> TRUE]

\* JSON null under `prd`.
NullPrd == [null |-> TRUE, keys |-> <<>>]

\* A variant of inject_context that returns a fresh document of the required
\* fields and the context, dropping the request's other keys.
InjectContextRebuild(req) ==
    [req EXCEPT !.keys = Append(required_fields, "injected_context"),
                !.prd = NullPrd,
                !.injected_context = InjectedContext]

\* UserPromptSubmitValidator.inject_context: request["injected_context"] = context
\* keeps the place of a key the dict has and adds a new key at the end.
inject_context(req) ==
    [req EXCEPT !.keys = IF HasKey(req.keys, "injected_context")
                         THEN req.keys ELSE Append(req.keys, "injected_context"),
                !.injected_context = InjectedContext]

\* UserPromptSubmitValidator.process(request): the request object is the
\* caller's, and inject_context writes into it.
HookProcess ==
    /\ hook_pc = "start"
    /\ LET validation == validate_request(hook_request, timestamp)
       IN  IF ~validation.valid
           THEN /\ hook_result' = validation
                /\ UNCHANGED hook_request
           ELSE /\ hook_request' = inject_context(hook_request)
                /\ hook_result' = [valid |-> TRUE, request |-> hook_request',
                                   timestamp |-> timestamp,
                                   ready_for_orchestrator |-> TRUE]
    /\ hook_pc' = "done"
    /\ UNCHANGED <<timestamp, prdVars, perfVars, orchVars>>

(***************************************************************************)
(* Orchestrator (src/ai/orchestrator.py)                                   *)
(***************************************************************************)
\* WorkflowPhase, in declaration order (self.workflow_phases).
WorkflowPhase ==
    << "validate_request", "validate_prd", "plan", "implement", "test", "review", "deploy" >>

\* self.agents.
agents ==
    << <<"orchestrator", [status |-> "active", capacity |-> 5]>>,
       <<"frontend_engineer", [status |-> "ready", capacity |-> 3]>>,
       <<"backend_engineer", [status |-> "ready", capacity |-> 3]>>,
       <<"infrastructure_guardian", [status |-> "ready", capacity |-> 2]>>,
       <<"security_reviewer", [status |-> "ready", capacity |-> 2]>>,
       <<"test_engineer", [status |-> "ready", capacity |-> 3]>> >>

\* str(uuid.uuid4())[:8]: any 8 hexadecimal digits.
RequestIds == {"0a1b2c3d", "9f8e7d6c"}

MissingFieldMsg(field) == << "Missing field: ", field >>

\* Orchestrator._validate_request.
_validate_request(req) ==
    LET i == FirstMissing(required_fields, req.keys)
    IN  IF i # 0
        THEN [valid |-> FALSE, error |-> MissingFieldMsg(required_fields[i])]
        ELSE [valid |-> TRUE, request_structure |-> "valid"]

\* request.get("prd"): None for a missing key.
GetPrd(req) == IF HasKey(req.keys, "prd") THEN req.prd ELSE [null |-> TRUE, keys |-> <<>>]

\* Python's truth value of an Optional[dict].
Truthy(prd) == ~prd.null /\ Len(prd.keys) > 0

\* A variant of _validate_prd that tests `prd is None`.
ValidatePrdIsNone(prd) ==
    IF prd.null
    THEN [valid |-> FALSE, error |-> << "PRD not provided" >>]
    ELSE [valid |-> TRUE, prd_structure |-> "valid"]

\* Orchestrator._validate_prd.
_validate_prd(prd) ==
    IF ~Truthy(prd)
    THEN [valid |-> FALSE, error |-> << "PRD not provided" >>]
    ELSE [valid |-> TRUE, prd_structure |-> "valid"]

\* A variant of _create_execution_plan that counts the request's keys as the
\* features to build.
CreateExecutionPlanFromRequest(req, prd) ==
    [features_to_build |-> Len(req.keys), estimated_duration_hours |-> 160,
     parallel_tracks |-> 3,
     dependencies |-> << "Database schema -> Backend API -> Frontend UI",
                         "Auth service -> Protected pages -> Tests",
                         "Blog feature -> SEO optimization -> Content" >>,
     critical_path |-> "Database Design -> Auth Service -> Core APIs",
     bottlenecks |-> <<>>]

\* Orchestrator._create_execution_plan (the arrows of its strings are written
\* "->" here, and the check marks of the review checklist are left out).
_create_execution_plan(req, prd) ==
    [features_to_build |-> 4, estimated_duration_hours |-> 160, parallel_tracks |-> 3,
     dependencies |-> << "Database schema -> Backend API -> Frontend UI",
                         "Auth service -> Protected pages -> Tests",
                         "Blog feature -> SEO optimization -> Content" >>,
     critical_path |-> "Database Design -> Auth Service -> Core APIs",
     bottlenecks |-> <<>>]

Task(task, priority, hours, dependencies) ==
    [task |-> task, priority |-> priority, estimated_hours |-> hours,
     dependencies |-> dependencies]

\* Orchestrator._assign_work: the dict literal, in its key order.
_assign_work(plan_) ==
    << <<"frontend_engineer",
         << Task("Homepage (P0)", "high", 16, <<>>),
            Task("Authentication UI (P0)", "high", 12, << "Backend: Auth API" >>),
            Task("Dashboard (P1)", "medium", 20, << "Backend: Analytics API" >>) >> >>,
       <<"backend_engineer",
         << Task("Database Schema", "critical", 8, <<>>),
            Task("Authentication API (P0)", "high", 12, << "Database Schema" >>),
            Task("Blog API (P2)", "medium", 16, << "Database Schema" >>) >> >>,
       <<"test_engineer",
         << Task("Unit tests", "high", 24, << "Implementation" >>),
            Task("Integration tests", "high", 16, << "Implementation" >>),
            Task("E2E tests", "medium", 20, << "Integration tests" >>) >> >>,
       <<"infrastructure_guardian",
         << Task("Terraform setup", "high", 20, <<>>),
            Task("CI/CD pipelines", "high", 16, << "Terraform setup" >>) >> >>,
       <<"security_reviewer",
         << Task("Code audit", "high", 12, << "Implementation" >>),
            Task("Dependency scanning", "high", 4, <<>>) >> >> >>

\* Orchestrator._create_test_plan.
_create_test_plan(plan_) ==
    [unit_tests |-> [target_coverage |-> 80, estimated_tests |-> 150],
     integration_tests |-> [target_coverage |-> 70, estimated_tests |-> 40],
     e2e_tests |-> [critical_flows |-> 12, estimated_tests |-> 25],
     performance_tests |-> [lighthouse_target |-> 90, bundle_size_limit_kb |-> 250],
     accessibility_tests |-> [standard |-> "WCAG 2.1 AA", automated_tests |-> 50]]

\* Orchestrator._get_review_checklist.
_get_review_checklist ==
    << "Code review - All PRs reviewed and approved",
       "Test coverage - Minimum 80% coverage met",
       "Performance - Lighthouse > 90",
       "Security - No vulnerabilities detected",
       "Accessibility - WCAG 2.1 AA compliant",
       "SEO - All meta tags and structured data present",
       "Documentation - API and code documented",
       "Breaking changes - None or properly documented",
       "Database migrations - All migrations tested",
       "Deployment plan - Ready for production" >>

\* Orchestrator._create_deployment_strategy.
_create_deployment_strategy(plan_) ==
    [strategy |-> "blue_green",
     stages |->
        << [stage |-> "staging",
            health_checks |-> << "API endpoints", "Database connectivity" >>,
            smoke_tests |-> 15, validation_time_minutes |-> 30],
           [stage |-> "production",
            gradual_rollout |-> [percentage |-> << 10, 50, 100 >>, interval_minutes |-> 30],
            rollback_plan |-> "Automatic on health check failure",
            monitoring |-> << "Error rates", "Performance metrics", "User impact" >>] >>,
     estimated_deployment_time_minutes |-> 60,
     downtime_required |-> 0]

\* A variant of AppendPhase that puts the new phase in front: phases.insert(0, phase).
InsertPhaseFirst(ep, phase) == [ep EXCEPT !.phases = << phase >> \o @]

\* execution_plan["phases"].append(phase)
AppendPhase(ep, phase) == [ep EXCEPT !.phases = Append(@, phase)]

\* orchestrate, lines 56-60: the empty execution plan with a fresh request id.
OrchBegin ==
    /\ orch_pc = "start"
    /\ \E id \in RequestIds :
           execution_plan' = [request_id |-> id, timestamp |-> timestamp, phases |-> <<>>]
    /\ orch_pc' = "validate_request"
    /\ UNCHANGED <<timestamp, request, request_validation, orch_prd_validation, plan,
                   assignments, orch_result, prdVars, perfVars, hookVars>>

\* orchestrate, phase 1 (lines 62-74).
OrchValidateRequest ==
    /\ orch_pc = "validate_request"
    /\ request_validation' = _validate_request(request)
    /\ IF ~request_validation'.valid
       THEN /\ orch_result' = [valid |-> FALSE, error |-> request_validation',
                               timestamp |-> timestamp]
            /\ orch_pc' = "done"
            /\ UNCHANGED execution_plan
       ELSE /\ execution_plan' =
                   AppendPhase(execution_plan,
                               [name |-> WorkflowPhase[1], status |-> "completed",
                                result |-> request_validation'])
            /\ orch_pc' = "validate_prd"
            /\ UNCHANGED orch_result
    /\ UNCHANGED <<timestamp, request, orch_prd_validation, plan, assignments,
                   prdVars, perfVars, hookVars>>

\* orchestrate, phase 2 (lines 76-88).
OrchValidatePrd ==
    /\ orch_pc = "validate_prd"
    /\ orch_prd_validation' = _validate_prd(GetPrd(request))
    /\ IF ~orch_prd_validation'.valid
       THEN /\ orch_result' = [valid |-> FALSE, error |-> orch_prd_validation',
                               timestamp |-> timestamp]
            /\ orch_pc' = "done"
            /\ UNCHANGED execution_plan
       ELSE /\ execution_plan' =
                   AppendPhase(execution_plan,
                               [name |-> WorkflowPhase[2], status |-> "completed",
                                result |-> orch_prd_validation'])
            /\ orch_pc' = "plan"
            /\ UNCHANGED orch_result
    /\ UNCHANGED <<timestamp, request, request_validation, plan, assignments,
                   prdVars, perfVars, hookVars>>

\* orchestrate, phase 3 (lines 90-96).
OrchPlan ==
    /\ orch_pc = "plan"
    /\ plan' = _create_execution_plan(request, orch_prd_validation)
    /\ execution_plan' =
           AppendPhase(execution_plan,
                       [name |-> WorkflowPhase[3], status |-> "ready", plan |-> plan'])
    /\ orch_pc' = "implement"
    /\ UNCHANGED <<timestamp, request, request_validation, orch_prd_validation,
                   assignments, orch_result, prdVars, perfVars, hookVars>>

\* orchestrate, phase 4 (lines 98-104).
OrchImplement ==
    /\ orch_pc = "implement"
    /\ assignments' = _assign_work(plan)
    /\ execution_plan' =
           AppendPhase(execution_plan,
                       [name |-> WorkflowPhase[4], status |-> "pending",
                        assignments |-> assignments'])
    /\ orch_pc' = "test"
    /\ UNCHANGED <<timestamp, request, request_validation, orch_prd_validation,
                   plan, orch_result, prdVars, perfVars, hookVars>>

\* orchestrate, phase 5 (lines 106-112).
OrchTest ==
    /\ orch_pc = "test"
    /\ execution_plan' =
           AppendPhase(execution_plan,
                       [name |-> WorkflowPhase[5], status |-> "pending",
                        plan |-> _create_test_plan(plan)])
    /\ orch_pc' = "review"
    /\ UNCHANGED <<timestamp, request, request_validation, orch_prd_validation,
                   plan, assignments, orch_result, prdVars, perfVars, hookVars>>

\* orchestrate, phase 6 (lines 114-119).
OrchReview ==
    /\ orch_pc = "review"
    /\ execution_plan' =
           AppendPhase(execution_plan,
                       [name |-> WorkflowPhase[6], status |-> "pending",
                        checklist |-> _get_review_checklist])
    /\ orch_pc' = "deploy"
    /\ UNCHANGED <<timestamp, request, request_validation, orch_prd_validation,
                   plan, assignments, orch_result, prdVars, perfVars, hookVars>>

\* orchestrate, phase 7 (lines 121-127).
OrchDeploy ==
    /\ orch_pc = "deploy"
    /\ execution_plan' =
           AppendPhase(execution_plan,
                       [name |-> WorkflowPhase[7], status |-> "pending",
                        strategy |-> _create_deployment_strategy(plan)])
    /\ orch_pc' = "return"
    /\ UNCHANGED <<timestamp, request, request_validation, orch_prd_validation,
                   plan, assignments, orch_result, prdVars, perfVars, hookVars>>

\* orchestrate, the final return (lines 129-135).
OrchReturn ==
    /\ orch_pc = "return"
    /\ orch_result' = [valid |-> TRUE, execution_plan |-> execution_plan,
                       agent_assignments |-> assignments,
                       ready_for_implementation |-> TRUE, timestamp |-> timestamp]
    /\ orch_pc' = "done"
    /\ UNCHANGED <<timestamp, request, execution_plan, request_validation,
                   orch_prd_validation, plan, assignments, prdVars, perfVars, hookVars>>

(***************************************************************************)
(* Requests.                                                               *)
(***************************************************************************)
AllRequestKeys == << "type", "action", "description", "prd", "injected_context" >>

\* Request types: the four valid ones and one that is not.
RequestTypes == Range(valid_types) \cup {"hotfix"}

PrdValues == {NullPrd, [null |-> FALSE, keys |-> <<>>],
              [null |-> FALSE, keys |-> << "Executive Summary" >>]}

\* What a caller may have put under `injected_context` itself.
CallerContext == [caller |-> TRUE]

MkRequest(keys, type, prd) ==
    [keys |-> keys,
     type |-> IF HasKey(keys, "type") THEN type ELSE "",
     prd |-> IF HasKey(keys, "prd") THEN prd ELSE NullPrd,
     injected_context |-> IF HasKey(keys, "injected_context") THEN CallerContext ELSE Absent]

Requests ==
    {MkRequest(Restrict(order, K), type, prd) :
        order \in KeyOrders(AllRequestKeys), K \in SUBSET Range(AllRequestKeys),
        type \in RequestTypes, prd \in PrdValues}

\* The hook is not in use.
HookIdle ==
    /\ hook_pc = "idle"
    /\ hook_request = None
    /\ hook_result = None

\* The orchestrator is not in use.
OrchIdle ==
    /\ orch_pc = "idle"
    /\ request = None
    /\ execution_plan = None
    /\ request_validation = None
    /\ orch_prd_validation = None
    /\ plan = None
    /\ assignments = None
    /\ orch_result = None

\* The same request document is handed to the hook and to the orchestrator,
\* each of which parses its own copy.
ReqStart(docs) ==
    /\ request \in docs
    /\ hook_request = request
    /\ hook_pc = "start"
    /\ hook_result = None
    /\ orch_pc = "start"
    /\ execution_plan = None
    /\ request_validation = None
    /\ orch_prd_validation = None
    /\ plan = None
    /\ assignments = None
    /\ orch_result = None

\* The orchestrator alone takes the request.
OrchStart(docs) ==
    /\ request \in docs
    /\ orch_pc = "start"
    /\ execution_plan = None
    /\ request_validation = None
    /\ orch_prd_validation = None
    /\ plan = None
    /\ assignments = None
    /\ orch_result = None

\* The caller hands another request to orchestrate on the same Orchestrator:
\* the locals of the call before are gone, its result is still the caller's.
OrchAgain ==
    /\ orch_pc = "done"
    /\ request' \in Requests
    /\ orch_pc' = "start"
    /\ execution_plan' = None
    /\ request_validation' = None
    /\ orch_prd_validation' = None
    /\ plan' = None
    /\ assignments' = None
    /\ UNCHANGED <<timestamp, orch_result, prdVars, perfVars, hookVars>>

(***************************************************************************)
(* Metrics documents.                                                      *)
(***************************************************************************)
MaxBundleItems == 2
MaxNetworkItems == 2
MaxGroupItems == 1

\* The item sequences over `pairs` of at most n items with distinct keys.
ItemSeqs(pairs, n) ==
    {s \in BoundedSeqs(pairs, n) : \A i, j \in DOMAIN s : i # j => s[i][1] # s[j][1]}

\* Sizes at and next to the two thresholds of a budget b: b itself, and the
\* largest size within 110% of b.
SizesAround(b) == {b, b + 1, (110 * b) \div 100, (110 * b) \div 100 + 1}

BundlePairs ==
    UNION {{<<bundle_budgets[k][1], v>> : v \in SizesAround(bundle_budgets[k][2])} :
              k \in DOMAIN bundle_budgets}
    \cup {<<"video", 5000>>}

NetworkPairs ==
    UNION {{<<network_budgets[k][1], v>> :
               v \in {network_budgets[k][2], network_budgets[k][2] + 1,
                      2 * network_budgets[k][2]}} :
              k \in DOMAIN network_budgets}
    \cup {<<"dns_lookup", 99999>>}

AllGroups == << "lighthouse", "core_web_vitals", "bundle_sizes", "network" >>

MkMetrics(groups, l, c, b, n) ==
    [groups |-> groups,
     lighthouse |-> IF HasKey(groups, "lighthouse") THEN l ELSE <<>>,
     core_web_vitals |-> IF HasKey(groups, "core_web_vitals") THEN c ELSE <<>>,
     bundle_sizes |-> IF HasKey(groups, "bundle_sizes") THEN b ELSE <<>>,
     network |-> IF HasKey(groups, "network") THEN n ELSE <<>>]

\* Documents with a bundle_sizes group only.
BundleDocs ==
    {MkMetrics(<< "bundle_sizes" >>, <<>>, <<>>, s, <<>>) :
        s \in ItemSeqs(BundlePairs, MaxBundleItems)}

\* Documents with a network group only.
NetworkDocs ==
    {MkMetrics(<< "network" >>, <<>>, <<>>, <<>>, s) :
        s \in ItemSeqs(NetworkPairs, MaxNetworkItems)}

PerfLighthousePairs == {<<"performance", 89>>, <<"performance", 90>>, <<"pwa", 50>>}
PerfCwvPairs == {<<"fcp", 1500000>>, <<"fcp", 1500001>>, <<"cls", 100>>, <<"cls", 101>>}
PerfBundlePairs == {<<"javascript", 300>>, <<"javascript", 301>>, <<"javascript", 331>>,
                    <<"video", 5000>>}
PerfNetworkPairs == {<<"ttfb", 200>>, <<"ttfb", 201>>, <<"dns_lookup", 99999>>}

\* Documents with any set of groups, in either order, each group of at most
\* MaxGroupItems items.
PerfDocs ==
    {MkMetrics(Restrict(order, G), l, c, b, n) :
        order \in KeyOrders(AllGroups), G \in SUBSET Range(AllGroups),
        l \in ItemSeqs(PerfLighthousePairs, MaxGroupItems),
        c \in ItemSeqs(PerfCwvPairs, MaxGroupItems),
        b \in ItemSeqs(PerfBundlePairs, MaxGroupItems),
        n \in ItemSeqs(PerfNetworkPairs, MaxGroupItems)}

MaxOrderItems == 2

\* Items that are over budget, named against the order of the budget tables,
\* and one Lighthouse category that the tables do not name.
OrderLighthousePairs == {<<"seo", 80>>, <<"performance", 89>>, <<"pwa", 50>>}
OrderCwvPairs == {<<"lcp", 2500001>>, <<"fcp", 1500001>>}
OrderBundlePairs == {<<"css", 76>>, <<"javascript", 301>>}
OrderNetworkPairs == {<<"4g_load_time", 3001>>, <<"ttfb", 201>>}

\* Documents with the four groups, in either order, each group of at most
\* MaxOrderItems items in any order.
OrderDocs ==
    {MkMetrics(order, l, c, b, n) :
        order \in KeyOrders(AllGroups),
        l \in ItemSeqs(OrderLighthousePairs, MaxOrderItems),
        c \in ItemSeqs(OrderCwvPairs, MaxOrderItems),
        b \in ItemSeqs(OrderBundlePairs, MaxOrderItems),
        n \in ItemSeqs(OrderNetworkPairs, MaxOrderItems)}

\* The caller hands the same metrics object to process on the same
\* PerformanceGuard once more; it still holds what the call before returned.
PerfAgain ==
    /\ perf_pc = "done"
    /\ perf_pc' = "start"
    /\ UNCHANGED <<timestamp, metrics, perf_validation, perf_result,
                   prdVars, hookVars, orchVars>>

\* The guard is not in use.
PerfIdle ==
    /\ perf_pc = "idle"
    /\ metrics = None
    /\ perf_validation = None
    /\ perf_result = None

PerfStart(docs) ==
    /\ perf_pc = "start"
    /\ metrics \in docs
    /\ perf_validation = None
    /\ perf_result = None

(***************************************************************************)
(* Specifications: one per family of input documents.                      *)
(***************************************************************************)
InitPRD == timestamp \in Timestamps /\ PRDStart(PRDDocs) /\ PerfIdle /\ HookIdle /\ OrchIdle
InitFeatures ==
    timestamp \in Timestamps /\ PRDStart(FeatureDocs) /\ PerfIdle /\ HookIdle /\ OrchIdle
InitPerf == timestamp \in Timestamps /\ PerfStart(PerfDocs) /\ PRDIdle /\ HookIdle /\ OrchIdle
InitBundle ==
    timestamp \in Timestamps /\ PerfStart(BundleDocs) /\ PRDIdle /\ HookIdle /\ OrchIdle
InitNetwork ==
    timestamp \in Timestamps /\ PerfStart(NetworkDocs) /\ PRDIdle /\ HookIdle /\ OrchIdle
InitReq == timestamp \in Timestamps /\ ReqStart(Requests) /\ PRDIdle /\ PerfIdle

InitOrder == timestamp \in Timestamps /\ PerfStart(OrderDocs) /\ PRDIdle /\ HookIdle /\ OrchIdle
InitRuns == timestamp \in Timestamps /\ OrchStart(Requests) /\ PRDIdle /\ PerfIdle /\ HookIdle

NextPRD == PRDProcess
NextPerf == PerfProcess
NextReq ==
    \/ HookProcess
    \/ OrchBegin
    \/ OrchValidateRequest
    \/ OrchValidatePrd
    \/ OrchPlan
    \/ OrchImplement
    \/ OrchTest
    \/ OrchReview
    \/ OrchDeploy
    \/ OrchReturn

NextPerfRuns == PerfProcess \/ PerfAgain
NextRuns ==
    \/ OrchBegin
    \/ OrchValidateRequest
    \/ OrchValidatePrd
    \/ OrchPlan
    \/ OrchImplement
    \/ OrchTest
    \/ OrchReview
    \/ OrchDeploy
    \/ OrchReturn
    \/ OrchAgain

SpecPRD == InitPRD /\ [][NextPRD]_vars
SpecFeatures == InitFeatures /\ [][NextPRD]_vars
SpecPerf == InitPerf /\ [][NextPerf]_vars
SpecBundle == InitBundle /\ [][NextPerf]_vars
SpecNetwork == InitNetwork /\ [][NextPerf]_vars
SpecReq == InitReq /\ [][NextReq]_vars
SpecRuns == InitRuns /\ [][NextRuns]_vars
SpecPerfRuns == InitOrder /\ [][NextPerfRuns]_vars

(***************************************************************************)
(* Properties of PRDValidator.                                             *)
(***************************************************************************)
Count(s, x) == Cardinality({i \in DOMAIN s : s[i] = x})

\* The position of x in the sequence s without repetitions (0 when absent).
IndexOf(s, x) == IF \E i \in DOMAIN s : s[i] = x THEN CHOOSE i \in DOMAIN s : s[i] = x ELSE 0

IsSectionMsg(m) == \E k \in DOMAIN required_sections : m = MissingSectionMsg(required_sections[k])
IsFeatureFieldMsg(m) == Len(m) = 5 /\ m[1] = "Feature "
IsFeatureMsg(m) == m = NoFeaturesMsg \/ IsFeatureFieldMsg(m)

PRDDone == prd_pc = "done"

\* C1: after validate_prd, for every required section s the issues hold exactly
\* one "Missing section: s" when s is not a key of the document and none when it
\* is, and these entries come in required_sections order whatever the order of
\* the document's keys.
C1_SectionsReported ==
    PRDDone =>
        LET issues == prd_validation.issues
            keyset == Range(prd_content.keys)
        IN  /\ \A k \in DOMAIN required_sections :
                   Count(issues, MissingSectionMsg(required_sections[k]))
                       = IF required_sections[k] \in keyset THEN 0 ELSE 1
            /\ \A i, j \in DOMAIN issues :
                   (i < j /\ IsSectionMsg(issues[i]) /\ IsSectionMsg(issues[j]))
                       => IndexOf(required_sections, issues[i][2])
                              < IndexOf(required_sections, issues[j][2])

\* C1 witness: a document in reverse key order that lacks two sections and has
\* a third has been validated.
C1_Witness ==
    /\ PRDDone
    /\ Len(prd_content.keys) > 1
    /\ prd_content.keys[1] = "constraints"
    /\ HasKey(prd_content.keys, "Timeline")
    /\ ~HasKey(prd_content.keys, "Executive Summary")
    /\ ~HasKey(prd_content.keys, "Non-Goals")
    /\ Count(prd_validation.issues, MissingSectionMsg("Non-Goals")) = 1

FeaturesEmptyOrNull(doc) ==
    HasKey(doc.keys, "features") /\ (doc.features.null \/ Len(doc.features.items) = 0)

FeatureMsgs(issues) == SelectSeq(issues, IsFeatureMsg)

\* C3 as stated: when the feature sequence is empty or absent (the key missing,
\* or its value null or the empty list), validation emits exactly one
\* feature-related issue, "No features defined", and no per-field issue.
C3_Original ==
    (PRDDone /\ (~HasKey(prd_content.keys, "features") \/ FeaturesEmptyOrNull(prd_content)))
        => FeatureMsgs(prd_validation.issues) = << NoFeaturesMsg >>

\* C3 amended: when the document has a `features` key whose value is null or the
\* empty list, validation emits exactly one feature-related issue, "No features
\* defined", and no per-field issue; when the document has no `features` key it
\* emits no feature-related issue at all.
C3_EmptyFeatures ==
    PRDDone =>
        /\ FeaturesEmptyOrNull(prd_content)
              => FeatureMsgs(prd_validation.issues) = << NoFeaturesMsg >>
        /\ ~HasKey(prd_content.keys, "features")
              => FeatureMsgs(prd_validation.issues) = <<>>

\* C3 witness: a document whose `features` is the empty list, with other issues
\* around it, has been validated.
C3_Witness ==
    /\ PRDDone
    /\ HasKey(prd_content.keys, "features")
    /\ ~prd_content.features.null
    /\ Len(prd_content.features.items) = 0
    /\ Len(prd_validation.issues) > 1
    /\ Count(prd_validation.issues, NoFeaturesMsg) = 1

\* The number of required fields the entry lacks.
MissingCount(feature) ==
    Cardinality(Range(required_feature_fields) \ Range(feature))

RECURSIVE SumMissing(_, _)
SumMissing(items, i) ==
    IF i > Len(items) THEN 0 ELSE MissingCount(items[i]) + SumMissing(items, i + 1)

\* C4: for a non-empty feature list, the issues are exactly one "Feature i:
\* missing field 'f'" per pair of a zero-based index i and a required field f
\* the entry i lacks, and nothing else, ordered by index and then by the
\* required-field order; N entries each lacking M fields give N*M issues.
C4_FeatureFieldIssues ==
    (PRDDone /\ HasKey(prd_content.keys, "features") /\ ~prd_content.features.null
             /\ Len(prd_content.features.items) > 0) =>
        LET items  == prd_content.features.items
            issues == FeatureMsgs(prd_validation.issues)
            N      == Len(items)
        IN  /\ \A i \in 0..(N - 1) : \A k \in DOMAIN required_feature_fields :
                   Count(issues, MissingFieldOfFeatureMsg(i, required_feature_fields[k]))
                       = IF required_feature_fields[k] \in Range(items[i + 1]) THEN 0 ELSE 1
            /\ Len(issues) = SumMissing(items, 1)
            /\ \A M \in 0..Len(required_feature_fields) :
                   (\A i \in 1..N : MissingCount(items[i]) = M) => Len(issues) = N * M
            /\ \A a, b \in DOMAIN issues : a # b => issues[a] # issues[b]
            /\ \A a \in DOMAIN issues :
                   \E i \in 0..(N - 1) : \E k \in DOMAIN required_feature_fields :
                       issues[a] = MissingFieldOfFeatureMsg(i, required_feature_fields[k])
            /\ \A a, b \in DOMAIN issues :
                   a < b => \/ issues[a][2] # issues[b][2]
                            \/ IndexOf(required_feature_fields, issues[a][4])
                                   < IndexOf(required_feature_fields, issues[b][4])
            /\ \A a, b \in DOMAIN issues : \A i, j \in 0..(N - 1) :
                   (a < b /\ issues[a][2] = ToString(i) /\ issues[b][2] = ToString(j)) => i <= j

\* C4 witness: two entries, each lacking two of the four fields, gave four issues.
C4_Witness ==
    /\ PRDDone
    /\ Len(prd_content.features.items) = 2
    /\ \A i \in 1..2 : MissingCount(prd_content.features.items[i]) = 2
    /\ prd_content.features.items[1] # prd_content.features.items[2]
    /\ Len(prd_validation.issues) = 4

AllPresent(required, keys) == \A k \in DOMAIN required : required[k] \in Range(keys)

\* A document with the 8 sections, a `features` list whose entries all carry the
\* 4 fields, and all metric and constraint categories.
CompleteExceptFeatureCount(doc) ==
    /\ AllPresent(required_sections, doc.keys)
    /\ HasKey(doc.keys, "features") /\ ~doc.features.null
    /\ \A i \in DOMAIN doc.features.items :
           AllPresent(required_feature_fields, doc.features.items[i])
    /\ HasKey(doc.keys, "success_metrics")
    /\ AllPresent(required_metric_categories, doc.success_metrics)
    /\ HasKey(doc.keys, "constraints")
    /\ AllPresent(required_constraint_categories, doc.constraints)

ProcessFollowsValidation ==
    /\ prd_result.valid = (Len(prd_validation.issues) = 0)
    /\ prd_result.valid => prd_result.ready_for_implementation
    /\ ~prd_result.valid => prd_result.issues = prd_validation.issues

\* C5 as stated: process returns valid:true with ready_for_implementation:true
\* for every document with the 8 sections, a `features` sequence whose entries
\* all carry the 4 fields, and all metric and constraint categories; and valid
\* is true exactly when validate_prd found no issue, the issues being carried
\* over otherwise.
C5_Original ==
    PRDDone =>
        /\ CompleteExceptFeatureCount(prd_content)
               => (prd_result.valid /\ prd_result.ready_for_implementation)
        /\ ProcessFollowsValidation

\* C5 amended: the same, for a `features` sequence that is not empty.
C5_CompleteIsValid ==
    PRDDone =>
        /\ (CompleteExceptFeatureCount(prd_content) /\ Len(prd_content.features.items) > 0)
               => (prd_result.valid /\ prd_result.ready_for_implementation)
        /\ ProcessFollowsValidation

\* C5 witness: a complete document with one complete feature was accepted.
C5_Witness ==
    /\ PRDDone
    /\ CompleteExceptFeatureCount(prd_content)
    /\ Len(prd_content.features.items) = 1
    /\ prd_result.valid
    /\ prd_result.ready_for_implementation

(***************************************************************************)
(* Properties of PerformanceGuard.                                         *)
(***************************************************************************)
PerfDone == perf_pc = "done"

\* The violations reported for the bundle item of asset type k and size s.
BundleViolationsOf(violations, k, s) ==
    SelectSeq(violations, LAMBDA v : v.metric = << Title(k), " bundle" >> /\ v.value = s)

\* C6: for every recognized asset type with budget b and integer size s, s <= b
\* gives no violation, b < s with s at most 110% of b (100*s <= 110*b) gives a
\* `warning`, and s above 110% of b (100*s > 110*b) gives a `critical`.
C6_BundleSeverityBoundary ==
    (PerfDone /\ metrics.groups = << "bundle_sizes" >>) =>
        \A i \in DOMAIN metrics.bundle_sizes :
            LET k  == metrics.bundle_sizes[i][1]
                s  == metrics.bundle_sizes[i][2]
                b  == Lookup(bundle_budgets, k)
                vs == BundleViolationsOf(perf_validation.violations, k, s)
            IN  HasItem(bundle_budgets, k) =>
                    /\ s <= b => Len(vs) = 0
                    /\ (b < s /\ 100 * s <= 110 * b) => (Len(vs) = 1 /\ vs[1].type = "warning")
                    /\ 100 * s > 110 * b => (Len(vs) = 1 /\ vs[1].type = "critical")

HasWarning(violations) == \E i \in DOMAIN violations : violations[i].type = "warning"

\* C7: validate_performance returns valid = true if and only if its violations
\* list is empty, so that one warning-severity item makes the result invalid;
\* its warnings list is always empty; process returns approved_for_merge:true
\* exactly in the valid case.
C7_ValidIffNoViolation ==
    PerfDone =>
        /\ perf_validation.valid = (Len(perf_validation.violations) = 0)
        /\ HasWarning(perf_validation.violations) => ~perf_validation.valid
        /\ perf_validation.warnings = <<>>
        /\ perf_result.valid = perf_validation.valid
        /\ perf_result.valid => perf_result.approved_for_merge
        /\ ~perf_result.valid => "approved_for_merge" \notin DOMAIN perf_result
        /\ perf_validation.valid =
              /\ (HasKey(metrics.groups, "lighthouse")
                     => Len(_check_lighthouse(metrics.lighthouse)) = 0)
              /\ (HasKey(metrics.groups, "core_web_vitals")
                     => Len(_check_core_web_vitals(metrics.core_web_vitals)) = 0)
              /\ (HasKey(metrics.groups, "bundle_sizes")
                     => Len(_check_bundle_sizes(metrics.bundle_sizes)) = 0)
              /\ (HasKey(metrics.groups, "network")
                     => Len(_check_network(metrics.network)) = 0)

\* C7 witness: a document whose only violation is one warning has been refused.
C7_Witness ==
    /\ PerfDone
    /\ Len(perf_validation.violations) = 1
    /\ perf_validation.violations[1].type = "warning"
    /\ ~perf_validation.valid
    /\ ~perf_result.valid
    /\ perf_result.warnings = <<>>

NetworkTableKeys == {"ttfb", "3g_load_time", "4g_load_time"}

\* C8: every violation from the network group has type `warning`, and there is
\* one exactly for each item whose key is in the network budget table (ttfb,
\* 3g_load_time, 4g_load_time) and whose value exceeds the budget; an item of
\* another key gives none, whatever its value.
C8_NetworkWarningsOnly ==
    (PerfDone /\ metrics.groups = << "network" >>) =>
        LET vs == perf_validation.violations
            Flagged(i) == /\ metrics.network[i][1] \in NetworkTableKeys
                          /\ metrics.network[i][2] > Lookup(network_budgets, metrics.network[i][1])
        IN  /\ \A j \in DOMAIN vs :
                   /\ vs[j].type = "warning"
                   /\ \E i \in DOMAIN metrics.network :
                          /\ Flagged(i)
                          /\ vs[j].metric = << metrics.network[i][1] >>
                          /\ vs[j].value = metrics.network[i][2]
            /\ \A i \in DOMAIN metrics.network :
                   Cardinality({j \in DOMAIN vs : vs[j].metric = << metrics.network[i][1] >>})
                       = IF Flagged(i) THEN 1 ELSE 0

\* C8 witness: an unknown key far above every budget beside a ttfb more than 10%
\* over its budget gave the one ttfb warning.
C8_Witness ==
    /\ PerfDone
    /\ metrics.groups = << "network" >>
    /\ HasItem(metrics.network, "dns_lookup")
    /\ HasItem(metrics.network, "ttfb")
    /\ Lookup(metrics.network, "ttfb") > 220
    /\ Len(perf_validation.violations) = 1
    /\ perf_validation.violations[1].type = "warning"

(***************************************************************************)
(* Properties of request validation and of Orchestrator.orchestrate.       *)
(***************************************************************************)
HookDone == hook_pc = "done"
OrchDone == orch_pc = "done"

\* orchestrate has run its phase 1.
RequestValidated == orch_pc \notin {"idle", "start", "validate_request"} \/ OrchDone

\* The required fields the request lacks, and the first of them in
\* required-list order.
MissingFields(req) == Range(required_fields) \ Range(req.keys)
FirstMissingField(req) ==
    required_fields[CHOOSE i \in DOMAIN required_fields :
                        /\ required_fields[i] \in MissingFields(req)
                        /\ \A j \in 1..(i - 1) : required_fields[j] \notin MissingFields(req)]

BuildsPhase(name) ==
    \E i \in DOMAIN execution_plan.phases : execution_plan.phases[i].name = name

\* C9: orchestrate short-circuits on an invalid request: if the request lacks
\* one of type, action, description, or its type is not one of feature, bugfix,
\* refactor, documentation, the result has valid:false and no execution plan,
\* and no plan, implement, test, review or deploy phase is built.
C9_InvalidRequestShortCircuits ==
    (OrchDone /\ (MissingFields(request) # {} \/ request.type \notin Range(valid_types))) =>
        /\ ~orch_result.valid
        /\ "execution_plan" \notin DOMAIN orch_result
        /\ \A name \in {"plan", "implement", "test", "review", "deploy"} : ~BuildsPhase(name)

StructurallyValid(req) == MissingFields(req) = {}

PrdMissing(req) ==
    \/ ~HasKey(req.keys, "prd")
    \/ req.prd.null
    \/ Len(req.prd.keys) = 0

PrdMissingError == [valid |-> FALSE, error |-> << "PRD not provided" >>]

\* C10 as stated: for a structurally valid request whose prd is null, absent or
\* empty, orchestrate returns valid:false with the PRD-missing error, and the
\* result exposes a `phases` list with at most the completed validate_request
\* entry and no later one.
C10_Original ==
    (OrchDone /\ StructurallyValid(request) /\ PrdMissing(request)) =>
        /\ ~orch_result.valid
        /\ orch_result.error = PrdMissingError
        /\ \/ "phases" \in DOMAIN orch_result
           \/ "execution_plan" \in DOMAIN orch_result

\* C10 amended: for such a request orchestrate returns valid:false with the
\* PRD-missing error and nothing but `valid`, `error` and `timestamp`: the
\* result exposes no `phases` list and no execution plan.  The phases list
\* built up to the return, which is dropped, holds exactly the completed
\* validate_request entry.
C10_PrdMissingShortCircuits ==
    (OrchDone /\ StructurallyValid(request) /\ PrdMissing(request)) =>
        /\ orch_result = [valid |-> FALSE, error |-> PrdMissingError, timestamp |-> timestamp]
        /\ DOMAIN orch_result = {"valid", "error", "timestamp"}
        /\ execution_plan.phases =
               << [name |-> "validate_request", status |-> "completed",
                   result |-> [valid |-> TRUE, request_structure |-> "valid"]] >>

\* C10 witness: a request with the three fields and an empty (not null) prd
\* mapping was refused.
C10_Witness ==
    /\ OrchDone
    /\ StructurallyValid(request)
    /\ HasKey(request.keys, "prd")
    /\ ~request.prd.null
    /\ Len(request.prd.keys) = 0
    /\ ~orch_result.valid
    /\ Len(execution_plan.phases) = 1

\* orchestrate has created its execution plan.
PlanCreated == orch_pc \notin {"idle", "start"}

PhaseNames(phases) == [i \in DOMAIN phases |-> phases[i].name]
PhaseStatuses(phases) == [i \in DOMAIN phases |-> phases[i].status]

\* The statuses the seven phases are given, in phase order.
ExpectedStatuses ==
    << "completed", "completed", "ready", "pending", "pending", "pending", "pending" >>

\* The phases list is a prefix of the fixed order, with the fixed statuses; a
\* successful result carries all seven.
PhasesArePrefix ==
    /\ PlanCreated =>
           LET phases == execution_plan.phases
           IN  /\ Len(phases) <= Len(WorkflowPhase)
               /\ PhaseNames(phases) = SubSeq(WorkflowPhase, 1, Len(phases))
               /\ PhaseStatuses(phases) = SubSeq(ExpectedStatuses, 1, Len(phases))
    /\ (OrchDone /\ orch_result.valid) =>
           /\ PhaseNames(orch_result.execution_plan.phases) = WorkflowPhase
           /\ PhaseStatuses(orch_result.execution_plan.phases) = ExpectedStatuses

\* A step leaves the phases list alone or appends one entry at its end.
PhasesOnlyAppend ==
    PlanCreated =>
        LET old == execution_plan.phases
            new == execution_plan'.phases
        IN  \/ new = old
            \/ Len(new) = Len(old) + 1 /\ SubSeq(new, 1, Len(old)) = old

\* C11: during a run of orchestrate the phases list only grows by appending at
\* its end, and at every step it is a prefix of the fixed order validate_request,
\* validate_prd, plan, implement, test, review, deploy (so a later phase is never
\* present without all earlier ones); on success it is exactly that sequence
\* with statuses completed, completed, ready, pending, pending, pending, pending.
C11_PhasesAppendInOrder == []PhasesArePrefix /\ [][PhasesOnlyAppend]_vars

\* C11 witness: a run returned successfully with all seven phases.
C11_Witness ==
    /\ OrchDone
    /\ orch_result.valid
    /\ Len(orch_result.execution_plan.phases) = 7
    /\ orch_result.execution_plan.phases[7].name = "deploy"

\* A successful result without what names the call: the request id and the
\* timestamps.
WithoutCallIdentity(result) ==
    [result EXCEPT !.timestamp = "", !.execution_plan.request_id = "",
                   !.execution_plan.timestamp = ""]

\* orchestrate is about to return successfully, and the call before it on
\* this Orchestrator returned successfully as well.
SecondSuccess == orch_pc = "return" /\ orch_result # None /\ orch_result.valid

\* C12: the successful result is independent of the request's content: when a
\* call of orchestrate returns successfully after an earlier call, for any
\* other request, returned successfully, the two results are equal in every
\* field except request_id and timestamp.
C12_ResultIndependentOfRequest ==
    [][SecondSuccess => WithoutCallIdentity(orch_result') = WithoutCallIdentity(orch_result)]_vars

\* C12 witness: a bugfix request that carries its own injected_context is about
\* to get its successful result, under another request id than that of the
\* successful result before it.
C12_Witness ==
    /\ SecondSuccess
    /\ request.type = "bugfix"
    /\ HasKey(request.keys, "injected_context")
    /\ orch_result.execution_plan.request_id # execution_plan.request_id
    /\ Len(execution_plan.phases) = 7

\* The roles self.agents declares.
DeclaredRoles == {agents[i][1] : i \in DOMAIN agents}

TaskFields == {"task", "priority", "estimated_hours", "dependencies"}

\* C13: the agent assignment table of a successful orchestrate, which is both
\* `agent_assignments` and the implement phase's `assignments`, has an entry for
\* each of the six agent roles the orchestrator declares (orchestrator,
\* frontend_engineer, backend_engineer, infrastructure_guardian,
\* security_reviewer, test_engineer), and every entry is a non-empty task list
\* whose tasks each carry task, priority, estimated_hours and dependencies.
C13_SixRoleAssignments ==
    (OrchDone /\ orch_result.valid) =>
        LET table == orch_result.agent_assignments
        IN  /\ orch_result.execution_plan.phases[4].assignments = table
            /\ Cardinality(DeclaredRoles) = 6
            /\ \A role \in DeclaredRoles : HasItem(table, role)
            /\ \A i \in DOMAIN table :
                   /\ Len(table[i][2]) > 0
                   /\ \A j \in DOMAIN table[i][2] : DOMAIN table[i][2][j] = TaskFields

\* process is about to validate a metrics object that it validated before.
SecondValidation == perf_pc = "start" /\ perf_validation # None

MetricsOf(violations) == [i \in DOMAIN violations |-> violations[i].metric]

KeysOf(items) == [i \in DOMAIN items |-> items[i][1]]

\* The Lighthouse categories of the input below the minimum score, in the
\* order of the fixed category table and in the order of the input.
LowCategoriesByTable(scores) ==
    SelectSeq(lighthouse_categories,
              LAMBDA k : HasItem(scores, k) /\ Lookup(scores, k) < min_score)
LowCategoriesByInput(scores) ==
    KeysOf(SelectSeq(scores, LAMBDA item : item[2] < min_score))

\* The Core-Web-Vitals metrics of the input over budget, in the order of the
\* fixed metric-name table.
SlowVitalsByTable(cwv) ==
    SelectSeq(KeysOf(metric_names),
              LAMBDA k : HasItem(cwv, k) /\ Lookup(cwv, k) > Lookup(cwv_budgets, k))

\* The items of the input over the budget of `budgets`, in input order.
OverBudgetByInput(items, budgets) ==
    KeysOf(SelectSeq(items,
                     LAMBDA item : /\ HasItem(budgets, item[1])
                                   /\ item[2] > Lookup(budgets, item[1])))

LighthouseLabels(keys) == [i \in DOMAIN keys |-> << "Lighthouse ", keys[i] >>]
VitalsLabels(keys) == [i \in DOMAIN keys |-> << Lookup(metric_names, keys[i]) >>]
BundleLabels(keys) == [i \in DOMAIN keys |-> << Title(keys[i]), " bundle" >>]
NetworkLabels(keys) == [i \in DOMAIN keys |-> << keys[i] >>]

\* The labels that follow the Lighthouse ones: Core Web Vitals in table order,
\* then bundle sizes and network in input order.
LabelsAfterLighthouse(doc) ==
    VitalsLabels(SlowVitalsByTable(doc.core_web_vitals))
    \o BundleLabels(OverBudgetByInput(doc.bundle_sizes, bundle_budgets))
    \o NetworkLabels(OverBudgetByInput(doc.network, network_budgets))

\* C15 as stated: Lighthouse violations precede Core-Web-Vitals violations,
\* which precede bundle-size violations, which precede network violations;
\* bundle sizes and network follow the input's order, and Lighthouse and Core
\* Web Vitals follow the fixed tables (performance, accessibility,
\* best-practices, seo; fcp, lcp, tti, cls) whatever the input's order, only
\* keys of those tables giving a violation.
C15_Original ==
    PerfDone =>
        MetricsOf(perf_validation.violations) =
            LighthouseLabels(LowCategoriesByTable(metrics.lighthouse))
            \o LabelsAfterLighthouse(metrics)

\* C15 amended: the same order of groups; bundle sizes, network and Lighthouse
\* follow the input's order, every Lighthouse category of the input below the
\* minimum score giving a violation, in the category table or not; Core Web
\* Vitals follow the fixed metric-name table (fcp, lcp, tti, cls) whatever the
\* input's order, only keys of that table giving a violation.
C15_ViolationOrder ==
    PerfDone =>
        MetricsOf(perf_validation.violations) =
            LighthouseLabels(LowCategoriesByInput(metrics.lighthouse))
            \o LabelsAfterLighthouse(metrics)

\* C15 witness: a document whose groups come in reverse order, with seo before
\* performance, lcp before fcp, css before javascript and 4g_load_time before
\* ttfb, has been validated.
C15_Witness ==
    /\ PerfDone
    /\ metrics.groups = Reverse(AllGroups)
    /\ KeysOf(metrics.lighthouse) = << "seo", "performance" >>
    /\ KeysOf(metrics.core_web_vitals) = << "lcp", "fcp" >>
    /\ KeysOf(metrics.bundle_sizes) = << "css", "javascript" >>
    /\ KeysOf(metrics.network) = << "4g_load_time", "ttfb" >>
    /\ MetricsOf(perf_validation.violations) =
           << << "Lighthouse ", "seo" >>, << "Lighthouse ", "performance" >>,
              << "First Contentful Paint" >>, << "Largest Contentful Paint" >>,
              << "Css", " bundle" >>, << "Javascript", " bundle" >>,
              << "4g_load_time" >>, << "ttfb" >> >>

\* The values of the request that the model carries besides injected_context.
SameOtherValues(after, before) == after.type = before.type /\ after.prd = before.prd

\* C16 as stated: for a request that passes validation, the `request` that
\* process returns is the input document with exactly one additional key,
\* injected_context, every other key and value unchanged; for a request that
\* fails validation the input document is left unchanged.
C16_Original ==
    HookDone =>
        IF hook_result.valid
        THEN /\ hook_result.request = hook_request
             /\ hook_request.keys = Append(request.keys, "injected_context")
             /\ ~HasKey(request.keys, "injected_context")
             /\ SameOtherValues(hook_request, request)
        ELSE hook_request = request

\* C16 amended: for a request that passes validation, the `request` that
\* process returns is the input document with injected_context set to the
\* injected context: one additional key, put last, when the input has no such
\* key, and the input's own value replaced in place, with no additional key,
\* when it has; every other key and value is unchanged.  For a request that
\* fails validation the input document is left unchanged.
C16_InjectionFrame ==
    HookDone =>
        IF hook_result.valid
        THEN /\ hook_result.request = hook_request
             /\ hook_request.injected_context = InjectedContext
             /\ hook_request.keys =
                    IF HasKey(request.keys, "injected_context")
                    THEN request.keys
                    ELSE Append(request.keys, "injected_context")
             /\ SameOtherValues(hook_request, request)
        ELSE hook_request = request

\* C16 witness: a request with a prd and no injected_context of its own passed
\* validation and came back with the context as its last key.
C16_Witness ==
    /\ HookDone
    /\ hook_result.valid
    /\ request.keys = << "type", "action", "description", "prd" >>
    /\ hook_request.keys = << "type", "action", "description", "prd", "injected_context" >>
    /\ hook_request.prd = request.prd
    /\ hook_request.injected_context = InjectedContext

====
